---- MODULE Spec2Model ----
(***************************************************************************)
(* yalla-admin: the general query engine (src/src/lib/queryTester.ts,      *)
(* lines 257-536, imported by the server as ./lib/generalQuery) and the    *)
(* schema migration runner (src/unnamed/part_005, imported as              *)
(* ./lib/migrate) together with the server start-up of src/src/index.tsx.  *)
(*                                                                         *)
(* Representation of JavaScript values                                     *)
(*   string | null        a sequence of length <= 1: <<>> is null or       *)
(*                        undefined, <<s>> is the string s                 *)
(*   number               [nan |-> BOOLEAN, n |-> Int]                     *)
(*   a URL parameter key  the key split at "_": "where_status" is          *)
(*                        <<"where", "status">>, "join_0_on" is            *)
(*                        <<"join", "0", "on">>, "table" is <<"table">>    *)
(*   an object            the sequence of its [k, v] entries in            *)
(*                        Object.keys order                                *)
(*   a query string       the sequence of the pieces it was concatenated   *)
(*                        from; each piece carries the place it came from  *)
(*                        (src) and its text                               *)
(***************************************************************************)
EXTENDS Integers, Sequences, FiniteSets, TLC

\* ------------------------------------------------------------------ bounds
\* Most where_<col> parameters in one request.
MaxWhere == 2
\* Most data_<col> parameters in one request.
MaxData == 2
\* Join indexes run over 0..MaxJoinIdx.
MaxJoinIdx == 1

\* ------------------------------------------------------- JavaScript basics
Null == <<>>
Some(s) == <<s>>
IsNull(o) == o = <<>>
\* The string of a non-null option.
Str(o) == o[1]
\* The empty string taken for a value: only null is falsy.
TruthyStrNotNull(o) == o # <<>>
\* Truthiness of string | null: null and "" are falsy.
TruthyStr(o) == o # <<>> /\ o[1] # ""

NaN == [nan |-> TRUE, n |-> 0]
Num(n) == [nan |-> FALSE, n |-> n]
\* Truthiness of a number: 0 and NaN are falsy.
TruthyNum(x) == ~x.nan /\ x.n # 0

\* An element of a bound-values list.
StrV(s) == [type |-> "string", s |-> s, num |-> Num(0)]
NumV(x) == [type |-> "number", s |-> "", num |-> x]

\* The decimal strings the model uses, with their values.
Decimal == ("0" :> 0) @@ ("1" :> 1) @@ ("2" :> 2) @@ ("7" :> 7) @@ ("10" :> 10) @@ ("20" :> 20)

\* parseInt(s) on the strings of the model: leading digits are read, a
\* string with none gives NaN.
parseInt(s) ==
    CASE s \in DOMAIN Decimal -> Num(Decimal[s])
      [] s = "-5"             -> Num(0 - 5)
      [] s = "10abc"          -> Num(10)
      [] OTHER                -> NaN

\* String.prototype.toUpperCase on the strings of the model.
toUpperCase(s) ==
    CASE s = "asc"      -> "ASC"
      [] s = "desc"     -> "DESC"
      [] s = "Desc"     -> "DESC"
      [] s = "sideways" -> "SIDEWAYS"
      [] s = "inner"    -> "INNER"
      [] s = "left"     -> "LEFT"
      [] s = "right"    -> "RIGHT"
      [] s = "full"     -> "FULL"
      [] s = "cross"    -> "CROSS"
      [] OTHER          -> s

\* value.split(",") on the values of the columns parameter.
splitComma(s) ==
    CASE s = "id, name" -> <<"id", " name">>
      [] s = "id,name"  -> <<"id", "name">>
      [] OTHER          -> <<s>>

\* String.prototype.trim.
trim(s) == IF s = " name" THEN "name" ELSE s

\* A property name that is a canonical array index: Object.keys lists these
\* first, in ascending numeric order, before the string keys.
IsArrayIndex(k) == k \in DOMAIN Decimal

\* obj[k] = v on an object given as its entries in Object.keys order: an
\* existing key keeps its place and takes the new value; a new array-index
\* key goes among the index keys by value; any other new key goes last.
ObjSet(obj, k, v) ==
    IF \E i \in DOMAIN obj : obj[i].k = k
    THEN [i \in DOMAIN obj |-> IF obj[i].k = k THEN [k |-> k, v |-> v] ELSE obj[i]]
    ELSE IF IsArrayIndex(k)
         THEN LET Before(e) == IsArrayIndex(e.k) /\ Decimal[e.k] < Decimal[k]
                  After(e) == ~Before(e)
              IN SelectSeq(obj, Before) \o <<[k |-> k, v |-> v]>> \o SelectSeq(obj, After)
         ELSE Append(obj, [k |-> k, v |-> v])

ObjectKeys(obj) == [i \in DOMAIN obj |-> obj[i].k]
ObjectValues(obj) == [i \in DOMAIN obj |-> obj[i].v]

\* ------------------------------------------------------------ query pieces
\* A piece of literal text of the source.
Lit(s) == [src |-> "literal", txt |-> s, k |-> 0]
\* A piece interpolated from a field of the request: `${table}`, ...
From(src, s) == [src |-> src, txt |-> s, k |-> 0]
\* `$${values.length}`: the placeholder $k.
Placeholder(k) == [src |-> "placeholder", txt |-> "$", k |-> k]

\* parts.join(sep) for parts that are sequences of pieces.
RECURSIVE JoinPieces(_, _)
JoinPieces(parts, sep) ==
    IF parts = <<>> THEN <<>>
    ELSE IF Len(parts) = 1 THEN parts[1]
    ELSE parts[1] \o <<Lit(sep)>> \o JoinPieces(Tail(parts), sep)

\* ---------------------------------------------------------- parseUrlParams
\* One parameter of the query string.
Param(key, value) == [key |-> key, value |-> value]

\* URLSearchParams.get(name): the value of the first parameter of that
\* name, or null.
ParamsGet(url, name) ==
    LET hits == {i \in DOMAIN url : url[i].key = <<name>>}
    IN IF hits = {} THEN Null
       ELSE Some(url[CHOOSE i \in hits : \A j \in hits : i <= j].value)

\* key.startsWith(prefix + "_")
startsWith(key, prefix) == Len(key) >= 2 /\ key[1] = prefix

\* The loop `for (const [key, value] of paramEntries) if (key.startsWith(p))
\* obj[key.replace(p, "")] = value`, for p = "where_" and p = "data_".
RECURSIVE CollectPrefixed(_, _, _)
CollectPrefixed(entries, prefix, obj) ==
    IF entries = <<>> THEN obj
    ELSE LET e == Head(entries)
         IN CollectPrefixed(Tail(entries), prefix,
                IF startsWith(e.key, prefix) THEN ObjSet(obj, e.key[2], e.value) ELSE obj)

\* The loop over the join_ parameters. The array `joins` is the function
\* from its defined indexes to its elements. An index that parseInt reads
\* as NaN or as a negative number names a property that is no element of
\* the array, which filter never visits: the array is left as it is.
RECURSIVE CollectJoins(_, _)
CollectJoins(entries, joins) ==
    IF entries = <<>> THEN joins
    ELSE LET e == Head(entries)
             joinIndex == parseInt(e.key[2])
             joinProperty == IF Len(e.key) >= 3 THEN e.key[3] ELSE ""
             i == joinIndex.n
             made == IF i \in DOMAIN joins THEN joins
                     ELSE joins @@ (i :> [table |-> "", type |-> "INNER", on |-> ""])
             set == CASE joinProperty = "table" -> [made EXCEPT ![i].table = e.value]
                      [] joinProperty = "type"  -> [made EXCEPT ![i].type = toUpperCase(e.value)]
                      [] joinProperty = "on"    -> [made EXCEPT ![i].on = e.value]
                      [] OTHER                  -> made
         IN CollectJoins(Tail(entries),
                IF ~startsWith(e.key, "join") THEN joins
                ELSE IF joinIndex.nan \/ joinIndex.n < 0 THEN joins
                ELSE set)

\* The array is handed on unfiltered: every element in ascending index
\* order.
RECURSIVE FilterJoinsKeepsAll(_, _)
FilterJoinsKeepsAll(joins, left) ==
    IF left = {} THEN <<>>
    ELSE LET i == CHOOSE m \in left : \A j \in left : m <= j
         IN <<joins[i]>> \o FilterJoinsKeepsAll(joins, left \ {i})

\* joins.filter((join) => join.table && join.on): the elements in ascending
\* index order, holes skipped.
RECURSIVE FilterJoins(_, _)
FilterJoins(joins, left) ==
    IF left = {} THEN <<>>
    ELSE LET i == CHOOSE m \in left : \A j \in left : m <= j
         IN (IF joins[i].table # "" /\ joins[i].on # "" THEN <<joins[i]>> ELSE <<>>)
            \o FilterJoins(joins, left \ {i})

\* What parseUrlParams gives: ok = FALSE stands for the throw, with its
\* message. columns, limit and offset are options (<<>> is undefined);
\* where and data are <<>> when the code returns undefined for them (the
\* builders treat undefined and an object without keys alike).
Thrown(message) ==
    [ok |-> FALSE, error |-> message, table |-> "", operation |-> "",
     columns |-> <<>>, where |-> <<>>, orderBy |-> Null, orderDirection |-> "",
     limit |-> <<>>, offset |-> <<>>, data |-> <<>>, joins |-> <<>>]

parseUrlParams(url) ==
    LET table == ParamsGet(url, "table")
        operation == ParamsGet(url, "operation")
        columnsParam == ParamsGet(url, "columns")
        directionParam == ParamsGet(url, "orderDirection")
        upper == IF IsNull(directionParam) THEN Null
                 ELSE Some(toUpperCase(Str(directionParam)))
        limitParam == ParamsGet(url, "limit")
        offsetParam == ParamsGet(url, "offset")
        where == CollectPrefixed(url, "where", <<>>)
        data == CollectPrefixed(url, "data", <<>>)
        joins == CollectJoins(url, <<>>)
    IN IF ~TruthyStr(table) \/ ~TruthyStr(operation)
       THEN Thrown("Missing required parameters: table and operation")
       ELSE [ok |-> TRUE, error |-> "",
             table |-> Str(table),
             operation |-> Str(operation),
             columns |-> IF IsNull(columnsParam) THEN <<>>
                         ELSE LET parts == splitComma(Str(columnsParam))
                              IN <<[i \in DOMAIN parts |-> trim(parts[i])]>>,
             where |-> where,
             orderBy |-> ParamsGet(url, "orderBy"),
             orderDirection |-> IF TruthyStr(upper) THEN Str(upper) ELSE "ASC",
             limit |-> IF TruthyStr(limitParam) THEN <<parseInt(Str(limitParam))>> ELSE <<>>,
             offset |-> IF TruthyStr(offsetParam) THEN <<parseInt(Str(offsetParam))>> ELSE <<>>,
             data |-> data,
             joins |-> FilterJoins(joins, DOMAIN joins)]

\* ----------------------------------------------------------- the builders
\* What a builder gives: ok = FALSE stands for the throw, with its message.
Built(query, values) == [ok |-> TRUE, error |-> "", query |-> query, values |-> values]
Rejected(message) == [ok |-> FALSE, error |-> message, query |-> <<>>, values |-> <<>>]

\* Object.keys(obj).map((key) => { values.push(obj[key]);
\*                                 return `${key} = $${values.length}` })
\* with `pushed` values in the list before the map starts.
\* Mutant: the value is written into the text, `${key} = '${obj[key]}'`.
AssignmentsInlined(obj, src, pushed) ==
    [i \in DOMAIN obj |-> <<From(src, obj[i].k), Lit(" = '"), From("value", obj[i].v), Lit("'")>>]

\* Mutant: the placeholder is numbered by the index of the map callback,
\* `$${index + 1}`, not by values.length.
AssignmentsRenumbered(obj, src, pushed) ==
    [i \in DOMAIN obj |-> <<From(src, obj[i].k), Lit(" = "), Placeholder(i)>>]

Assignments(obj, src, pushed) ==
    [i \in DOMAIN obj |-> <<From(src, obj[i].k), Lit(" = "), Placeholder(pushed + i)>>]

\* The values the map above pushes.
Pushed(obj) == [i \in DOMAIN obj |-> StrV(obj[i].v)]

\* for (const join of joins) query += ` ${join.type} JOIN ${join.table} ON ${join.on}`
RECURSIVE JoinClauses(_)
JoinClauses(joins) ==
    IF joins = <<>> THEN <<>>
    ELSE <<Lit(" "), From("join.type", Head(joins).type), Lit(" JOIN "),
           From("join.table", Head(joins).table), Lit(" ON "),
           From("join.on", Head(joins).on)>> \o JoinClauses(Tail(joins))

\* if (x) { values.push(x); query += `<keyword>$${values.length}` } for an
\* optional number x.
PushClause(built, keyword, x) ==
    IF x # <<>> /\ TruthyNum(x[1])
    THEN LET values == Append(built.values, NumV(x[1]))
         IN Built(built.query \o <<Lit(keyword), Placeholder(Len(values))>>, values)
    ELSE built

\* Mutant: the OFFSET clause is added before the LIMIT clause.
PaginateOffsetFirst(query, values, limit, offset) ==
    PushClause(PushClause(Built(query, values), " OFFSET ", offset), " LIMIT ", limit)

\* "Add LIMIT and OFFSET".
Paginate(query, values, limit, offset) ==
    PushClause(PushClause(Built(query, values), " LIMIT ", limit), " OFFSET ", offset)

buildSelectQuery(params) ==
    LET columns == IF params.columns # <<>> /\ Len(params.columns[1]) > 0
                   THEN JoinPieces([i \in DOMAIN params.columns[1] |->
                                       <<From("columns", params.columns[1][i])>>], ", ")
                   ELSE <<Lit("*")>>
        q1 == <<Lit("SELECT ")>> \o columns \o <<Lit(" FROM "), From("table", params.table)>>
              \o JoinClauses(params.joins)
        v1 == Pushed(params.where)
        q2 == IF Len(params.where) > 0
              THEN q1 \o <<Lit(" WHERE ")>>
                      \o JoinPieces(Assignments(params.where, "where.key", 0), " AND ")
              ELSE q1
        q3 == IF TruthyStr(params.orderBy)
              THEN q2 \o <<Lit(" ORDER BY "), From("orderBy", Str(params.orderBy)), Lit(" "),
                           From("orderDirection", params.orderDirection)>>
              ELSE q2
    IN Paginate(q3, v1, params.limit, params.offset)

\* buildInsertQuery past its check of data.
InsertStatement(params) ==
    LET columns == ObjectKeys(params.data)
        values == ObjectValues(params.data)
    IN Built(<<Lit("INSERT INTO "), From("table", params.table), Lit(" (")>>
             \o JoinPieces([i \in DOMAIN columns |-> <<From("data.key", columns[i])>>], ", ")
             \o <<Lit(") VALUES (")>>
             \o JoinPieces([i \in DOMAIN values |-> <<Placeholder(i)>>], ", ")
             \o <<Lit(") RETURNING *")>>,
             [i \in DOMAIN values |-> StrV(values[i])])

\* Mutant: the check of data is missing.
buildInsertQueryUnguarded(params) == InsertStatement(params)

buildInsertQuery(params) ==
    IF Len(params.data) = 0
    THEN Rejected("INSERT operation requires data parameters")
    ELSE InsertStatement(params)

buildUpdateQuery(params) ==
    IF Len(params.data) = 0
    THEN Rejected("UPDATE operation requires data parameters")
    ELSE IF Len(params.where) = 0
    THEN Rejected("UPDATE operation requires WHERE conditions for safety")
    ELSE Built(<<Lit("UPDATE "), From("table", params.table), Lit(" SET ")>>
               \o JoinPieces(Assignments(params.data, "data.key", 0), ", ")
               \o <<Lit(" WHERE ")>>
               \o JoinPieces(Assignments(params.where, "where.key", Len(params.data)), " AND ")
               \o <<Lit(" RETURNING *")>>,
               Pushed(params.data) \o Pushed(params.where))

\* buildDeleteQuery past its check of where.
DeleteStatement(params) ==
    Built(<<Lit("DELETE FROM "), From("table", params.table), Lit(" WHERE ")>>
          \o JoinPieces(Assignments(params.where, "where.key", 0), " AND ")
          \o <<Lit(" RETURNING *")>>,
          Pushed(params.where))

\* Mutant: the check of where is missing.
buildDeleteQueryUnguarded(params) == DeleteStatement(params)

buildDeleteQuery(params) ==
    IF Len(params.where) = 0
    THEN Rejected("DELETE operation requires WHERE conditions for safety")
    ELSE DeleteStatement(params)

\* The switch of generalQuery.
Dispatch(params) ==
    CASE params.operation = "select" -> buildSelectQuery(params)
      [] params.operation = "insert" -> buildInsertQuery(params)
      [] params.operation = "update" -> buildUpdateQuery(params)
      [] params.operation = "delete" -> buildDeleteQuery(params)
      [] OTHER -> Rejected("Unsupported operation: " \o params.operation)

\* ------------------------------------------------------------ generalQuery
\* The envelope generalQuery returns. data, error, operation and table are
\* options: <<>> is an absent field (data, error) or null (operation, table).
NoResult == [success |-> FALSE, data |-> <<>>, error |-> <<>>, operation |-> <<>>, table |-> <<>>]

\* A thrown value: an Error with its message, or anything else.
Err(message) == [isError |-> TRUE, message |-> message]

\* The catch block.
Failure(e) ==
    [success |-> FALSE, data |-> <<>>,
     error |-> Some(IF e.isError THEN e.message ELSE "Unknown error"),
     operation |-> Null, table |-> Null]

\* The return after the await.
Success(rows, params) ==
    [success |-> TRUE, data |-> Some(rows), error |-> <<>>,
     operation |-> Some(params.operation), table |-> Some(params.table)]

\* Mutant: the switch stands before the try block, so what a builder throws
\* leaves generalQuery.
generalQueryTryUncaught(u) ==
    LET params == parseUrlParams(u)
        queryData == Dispatch(params)
    IN IF ~params.ok
       THEN [pc |-> "done", sent |-> <<>>, result |-> Failure(Err(params.error)), threw |-> FALSE]
       ELSE IF ~queryData.ok
       THEN [pc |-> "done", sent |-> <<>>, result |-> NoResult, threw |-> TRUE]
       ELSE [pc |-> "awaiting", result |-> NoResult, threw |-> FALSE,
             sent |-> <<[query |-> queryData.query, values |-> queryData.values]>>]

\* The try block up to `await sql.unsafe(...)`: where the call stands then
\* (pc), the statements handed to sql.unsafe, the envelope if the call is
\* over, and whether an error left generalQuery.
generalQueryTry(u) ==
    LET params == parseUrlParams(u)
        queryData == Dispatch(params)
    IN IF ~params.ok
       THEN [pc |-> "done", sent |-> <<>>, result |-> Failure(Err(params.error)), threw |-> FALSE]
       ELSE IF ~queryData.ok
       THEN [pc |-> "done", sent |-> <<>>, result |-> Failure(Err(queryData.error)), threw |-> FALSE]
       ELSE [pc |-> "awaiting", result |-> NoResult, threw |-> FALSE,
             sent |-> <<[query |-> queryData.query, values |-> queryData.values]>>]

\* Response.json(result) of the "/api/query" route: the status of the reply.
ResponseJson(result) == 200

\* ------------------------------------------------------------ the requests
WhereCols == {"status", "name", "7"}
DataCols == {"name", "price"}
\* The value of the i-th where_ (data_) parameter of a request. The code
\* copies values and never looks into them.
WhereValues == <<"active", "x' OR '1'='1", "w3", "w4", "w5">>
DataValues == <<"Widget", "9.99'); DROP TABLE users; --", "d3", "d4", "d5">>
JoinIdx == <<"0", "1", "2">>
JoinTables == <<"users", "orders", "order_items">>

\* A parameter that is absent or has one of the values.
Opt(name, vals) == {<<>>} \cup {<<Param(name, v)>> : v \in vals}

WhereFrags ==
    UNION {{[i \in 1..n |-> Param(<<"where", c[i]>>, WhereValues[i])] : c \in [1..n -> WhereCols]}
           : n \in 0..MaxWhere}
DataFrags ==
    UNION {{[i \in 1..n |-> Param(<<"data", c[i]>>, DataValues[i])] : c \in [1..n -> DataCols]}
           : n \in 0..MaxData}

\* The parameters of join index i, each present or not.
JoinFrag(i) ==
    {t \o y \o o :
        t \in Opt(<<"join", JoinIdx[i + 1], "table">>, {JoinTables[i + 1], ""}),
        y \in Opt(<<"join", JoinIdx[i + 1], "type">>, {"left", "cross"}),
        o \in Opt(<<"join", JoinIdx[i + 1], "on">>, {"a.id = b.id"})}
\* The join parameters of indexes 0..i, the higher index first in the URL.
RECURSIVE JoinFrags(_)
JoinFrags(i) ==
    IF i < 0 THEN {<<>>}
    ELSE {hi \o lo : hi \in JoinFrag(i), lo \in JoinFrags(i - 1)}

SelectProducts == <<Param(<<"operation">>, "select"), Param(<<"table">>, "products")>>

\* Requests over table, operation and the where_ and data_ parameters.
UrlsDispatch ==
    {t \o o \o w \o d :
        t \in Opt(<<"table">>, {"", "products"}),
        o \in Opt(<<"operation">>, {"", "select", "insert", "update", "delete", "merge"}),
        w \in WhereFrags, d \in DataFrags}
\* Select requests over the clauses of a select.
UrlsSelect ==
    {SelectProducts \o c \o w \o ob \o od \o l \o f :
        c \in Opt(<<"columns">>, {"id, name"}),
        w \in WhereFrags,
        ob \in Opt(<<"orderBy">>, {"created_at"}),
        od \in Opt(<<"orderDirection">>, {"DESC", "desc", "sideways"}),
        l \in Opt(<<"limit">>, {"10", "0", "abc", "-5"}),
        f \in Opt(<<"offset">>, {"20", "0"})}
\* Select requests with joins.
UrlsJoin ==
    {SelectProducts \o j \o w \o l :
        j \in JoinFrags(MaxJoinIdx),
        w \in Opt(<<"where", "status">>, {"active"}),
        l \in Opt(<<"limit">>, {"10"})}
\* The request of the end-to-end scenario.
ExampleUrl ==
    <<Param(<<"operation">>, "select"), Param(<<"table">>, "products"),
      Param(<<"where", "status">>, "active"), Param(<<"orderBy">>, "created_at"),
      Param(<<"orderDirection">>, "DESC"), Param(<<"limit">>, "10")>>
Urls == UrlsDispatch \cup UrlsSelect \cup UrlsJoin \cup {ExampleUrl}

\* ------------------------------------------------------------------- state
\* The "/api/query" route and generalQuery.
VARIABLES
    url,      \* the query string of the request being handled
    qpc,      \* "idle", "awaiting" (generalQuery at its await), "done"
    sent,     \* the statements handed to sql.unsafe for this request
    result,   \* the envelope generalQuery returned
    threw,    \* an error left generalQuery
    status    \* the HTTP status of the reply, 0 before the reply

\* The database schema, initDatabase and startServer.
VARIABLES
    tables,    \* the relations of the database
    indexes,   \* its indexes
    populated, \* the managed tables that hold rows
    versions,  \* the rows of schema_versions, in insertion order
    nextId,    \* the next value of the SERIAL id of schema_versions
    clock,     \* the created_at of the last row inserted
    run,       \* the call of initDatabase in progress, or the last one
    other,     \* a second call of initDatabase, in another process
    prev,      \* how the call before `run` ended
    nruns,     \* the calls of initDatabase so far
    server,    \* "down", "starting", "serving", "exited"
    exitCode,  \* the exit code of a process that exited
    accepted   \* the requests the serving process has accepted

qvars == <<url, qpc, sent, result, threw, status>>
mvars == <<tables, indexes, populated, versions, nextId, clock, run, other, prev, nruns, server,
          exitCode, accepted>>
dbvars == <<tables, indexes, populated, versions, nextId, clock>>
vars == <<qvars, mvars>>

\* ---------------------------------------------------- the route as actions
\* The "/api/query" route takes a request: generalQuery runs to its await,
\* or to its end when parsing or building throws.
ApiQueryRoute(u) ==
    /\ qpc = "idle"
    /\ LET r == generalQueryTry(u)
       IN /\ url' = u
          /\ qpc' = r.pc
          /\ sent' = r.sent
          /\ result' = r.result
          /\ threw' = r.threw
          /\ status' = IF r.pc = "done" /\ ~r.threw THEN ResponseJson(r.result) ELSE 0
    /\ UNCHANGED mvars

\* sql.unsafe resolves with the rows.
SqlResolve ==
    /\ qpc = "awaiting"
    /\ qpc' = "done"
    /\ result' = Success("rows", parseUrlParams(url))
    /\ status' = ResponseJson(result')
    /\ UNCHANGED <<url, sent, threw>>
    /\ UNCHANGED mvars

\* Mutant: a statement the database refused is sent once more before the
\* error is reported.
SqlRejectRetry ==
    /\ qpc = "awaiting"
    /\ IF Len(sent) < 2
       THEN /\ sent' = Append(sent, sent[1])
            /\ UNCHANGED <<url, qpc, result, threw, status>>
       ELSE /\ qpc' = "done"
            /\ result' = Failure(Err("database error"))
            /\ status' = ResponseJson(result')
            /\ UNCHANGED <<url, sent, threw>>
    /\ UNCHANGED mvars

\* sql.unsafe rejects: the catch block.
SqlReject ==
    /\ qpc = "awaiting"
    /\ qpc' = "done"
    /\ result' = Failure(Err("database error"))
    /\ status' = ResponseJson(result')
    /\ UNCHANGED <<url, sent, threw>>
    /\ UNCHANGED mvars

\* The reply is out; the route waits for the next request.
ReplySent ==
    /\ qpc = "done"
    /\ url' = <<>>
    /\ qpc' = "idle"
    /\ sent' = <<>>
    /\ result' = NoResult
    /\ threw' = FALSE
    /\ status' = 0
    /\ UNCHANGED mvars

QNext ==
    \/ \E u \in Urls : ApiQueryRoute(u)
    \/ SqlResolve
    \/ SqlReject
    \/ ReplySent

\* ------------------------------------------------- the query engine: claims
Range(f) == {f[i] : i \in DOMAIN f}

\* The request of the call in progress, as parseUrlParams reads it.
Request == parseUrlParams(url)
\* The parameters as the query string gives them.
RawOperation == ParamsGet(url, "operation")
RawTable == ParamsGet(url, "table")
HasWhereParam == \E i \in DOMAIN url : startsWith(url[i].key, "where")
HasDataParam == \E i \in DOMAIN url : startsWith(url[i].key, "data")
\* The value the last where_<c> (data_<c>) parameter gives column c.
LastValue(prefix, c) ==
    url[CHOOSE i \in DOMAIN url :
            /\ url[i].key = <<prefix, c>>
            /\ \A j \in DOMAIN url : url[j].key = <<prefix, c>> => j <= i].value
\* The columns the where_ (data_) parameters name.
ParamCols(prefix) == {url[i].key[2] : i \in {j \in DOMAIN url : startsWith(url[j].key, prefix)}}

\* The values a builder takes from the where map and from the data map.
TakenValues ==
    (IF Request.operation \in {"select", "update", "delete"}
     THEN {LastValue("where", c) : c \in ParamCols("where")} ELSE {})
    \cup
    (IF Request.operation \in {"insert", "update"}
     THEN {LastValue("data", c) : c \in ParamCols("data")} ELSE {})

\* C1: every value a builder takes from the where map or the data map is in
\* the values list of the statement, the query text has a placeholder $k
\* for its place k in the list, and no piece of the query text is the value.
C1_ValuesOnlyBound ==
    \A s \in Range(sent) : \A v \in TakenValues :
        /\ \E k \in DOMAIN s.values :
              /\ s.values[k] = StrV(v)
              /\ Placeholder(k) \in Range(s.query)
        /\ \A i \in DOMAIN s.query :
              s.query[i].src # "placeholder" => s.query[i].txt # v

C1_Witness ==
    /\ qpc = "awaiting"
    /\ RawOperation = Some("update")
    /\ "x' OR '1'='1" \in TakenValues
    /\ "9.99'); DROP TABLE users; --" \in TakenValues

\* C2: no piece of the text of a statement sent to the database comes from
\* a request parameter: the text is made of literals of the source and of
\* placeholders only.
C2_NoRequestTextInQuery ==
    \A s \in Range(sent) : \A i \in DOMAIN s.query :
        s.query[i].src \in {"literal", "placeholder"}

\* C3: an update or delete request without a where_ parameter ends with
\* success = false and hands no statement to the database, whatever its
\* data_ parameters.
C3_MutationNeedsWhere ==
    (qpc # "idle" /\ RawOperation \in {Some("update"), Some("delete")} /\ ~HasWhereParam)
        => /\ qpc = "done"
           /\ sent = <<>>
           /\ ~result.success

C3_Witness ==
    /\ qpc = "done"
    /\ RawOperation = Some("delete")
    /\ RawTable = Some("products")
    /\ HasDataParam /\ ~HasWhereParam
    /\ result.error = Some("DELETE operation requires WHERE conditions for safety")

\* C4: an insert or update request without a data_ parameter ends with
\* success = false and hands no statement to the database.
C4_WriteNeedsData ==
    (qpc # "idle" /\ RawOperation \in {Some("insert"), Some("update")} /\ ~HasDataParam)
        => /\ qpc = "done"
           /\ sent = <<>>
           /\ ~result.success

C4_Witness ==
    /\ qpc = "done"
    /\ RawOperation = Some("insert")
    /\ RawTable = Some("products")
    /\ HasWhereParam /\ ~HasDataParam
    /\ result.error = Some("INSERT operation requires data parameters")

\* The placeholders of a query, in the order of the text.
PlaceholdersOf(query) ==
    LET IsPlaceholder(piece) == piece.src = "placeholder"
        ps == SelectSeq(query, IsPlaceholder)
    IN [i \in DOMAIN ps |-> ps[i].k]

\* C5: the placeholders of a statement are $1..$n in this order, n the
\* length of its values list; the placeholder after `<col> = ` in SET or
\* WHERE is the place of that column's value in the list, the i-th column
\* of an insert has the i-th value, and the placeholders of LIMIT and OFFSET
\* are the places of the parsed limit and offset.
C5_PlaceholdersMatchValues ==
    \A s \in Range(sent) :
        /\ PlaceholdersOf(s.query) = [i \in 1..Len(s.values) |-> i]
        /\ \A i \in DOMAIN s.query :
              /\ (s.query[i].src = "where.key" /\ Request.operation # "insert")
                    => /\ s.query[i + 1] = Lit(" = ")
                       /\ s.query[i + 2].src = "placeholder"
                       /\ s.values[s.query[i + 2].k] = StrV(LastValue("where", s.query[i].txt))
              /\ (s.query[i].src = "data.key" /\ Request.operation = "update")
                    => /\ s.query[i + 1] = Lit(" = ")
                       /\ s.query[i + 2].src = "placeholder"
                       /\ s.values[s.query[i + 2].k] = StrV(LastValue("data", s.query[i].txt))
              /\ s.query[i] = Lit(" LIMIT ")
                    => /\ s.query[i + 1].src = "placeholder"
                       /\ s.values[s.query[i + 1].k] = NumV(parseInt(Str(ParamsGet(url, "limit"))))
              /\ s.query[i] = Lit(" OFFSET ")
                    => /\ s.query[i + 1].src = "placeholder"
                       /\ s.values[s.query[i + 1].k] = NumV(parseInt(Str(ParamsGet(url, "offset"))))
        /\ Request.operation = "insert"
              => LET IsColumn(piece) == piece.src = "data.key"
                     cols == SelectSeq(s.query, IsColumn)
                 IN /\ Len(cols) = Len(s.values)
                    /\ \A i \in DOMAIN cols : s.values[i] = StrV(LastValue("data", cols[i].txt))
        /\ Request.operation = "update"
              => \A i, j \in DOMAIN s.query :
                    (s.query[i].src = "data.key" /\ s.query[j].src = "where.key")
                       => s.query[i + 2].k < s.query[j + 2].k
        /\ Request.operation = "select"
              => \A i, j \in DOMAIN s.query :
                    /\ (s.query[i].src = "where.key" /\ s.query[j] = Lit(" LIMIT "))
                          => s.query[i + 2].k < s.query[j + 1].k
                    /\ (s.query[i].src = "where.key" /\ s.query[j] = Lit(" OFFSET "))
                          => s.query[i + 2].k < s.query[j + 1].k
                    /\ (s.query[i] = Lit(" LIMIT ") /\ s.query[j] = Lit(" OFFSET "))
                          => s.query[i + 1].k < s.query[j + 1].k

C5_Witness ==
    /\ qpc = "awaiting"
    /\ RawOperation = Some("update")
    /\ Cardinality(ParamCols("data")) = 2
    /\ Cardinality(ParamCols("where")) = 2
    /\ Len(sent[1].values) = 4

\* Parsing and building succeed, read off the parameters of the query
\* string: table and operation are given, the operation is one of the four,
\* an insert has data, an update has data and where, a delete has where.
Accepted ==
    /\ TruthyStr(RawTable)
    /\ \/ RawOperation = Some("select")
       \/ RawOperation = Some("insert") /\ HasDataParam
       \/ RawOperation = Some("update") /\ HasDataParam /\ HasWhereParam
       \/ RawOperation = Some("delete") /\ HasWhereParam

\* C6: from the moment a call of generalQuery reaches its await or its end,
\* it has handed the database exactly one statement when parsing and
\* building succeed and none otherwise; a statement the database refused
\* is not handed over again.
C6_OneStatementPerCall ==
    qpc # "idle" => Len(sent) = IF Accepted THEN 1 ELSE 0

C6_Witness ==
    /\ qpc = "done"
    /\ Len(sent) = 1
    /\ result.error = Some("database error")

\* C7: no error leaves generalQuery, and the envelope it returns is either
\* {success: true, data, operation, table} with the operation and table of
\* the request, or {success: false, error, operation: null, table: null}
\* without data.
C7_UniformEnvelope ==
    /\ ~threw
    /\ qpc = "done" =>
          \/ /\ result.success
             /\ result.data # <<>>
             /\ result.operation = RawOperation
             /\ result.table = RawTable
          \/ /\ ~result.success
             /\ result.error # <<>>
             /\ result.data = <<>>
             /\ result.operation = Null
             /\ result.table = Null

C7_Witness ==
    /\ qpc = "done"
    /\ RawOperation = Some("merge")
    /\ result.error = Some("Unsupported operation: merge")
    /\ result.operation = Null

\* The text of a query, piece by piece, a placeholder as "$k".
Dollar == <<"$1", "$2", "$3", "$4", "$5", "$6", "$7", "$8">>
Render(query) ==
    [i \in DOMAIN query |->
        IF query[i].src = "placeholder" THEN Dollar[query[i].k] ELSE query[i].txt]

\* The place of a clause in SELECT .. FROM .. JOIN .. WHERE .. ORDER BY ..
\* LIMIT .. OFFSET, 0 for a piece that starts no clause.
ClauseRank(piece) ==
    IF piece.src # "literal" THEN 0
    ELSE CASE piece.txt = "SELECT "   -> 1
           [] piece.txt = " FROM "    -> 2
           [] piece.txt = " JOIN "    -> 3
           [] piece.txt = " WHERE "   -> 4
           [] piece.txt = " ORDER BY " -> 5
           [] piece.txt = " LIMIT "   -> 6
           [] piece.txt = " OFFSET "  -> 7
           [] OTHER                   -> 0

\* Where the first where_<c> parameter stands in the query string.
FirstPos(c) == CHOOSE i \in DOMAIN url :
                  /\ url[i].key = <<"where", c>>
                  /\ \A j \in DOMAIN url : url[j].key = <<"where", c>> => i <= j
\* Column c1 is met before column c2 in the query string.
EncounterBefore(c1, c2) == FirstPos(c1) < FirstPos(c2)
\* Column c1 stands before column c2 among the keys of the where object: a
\* column whose name is a canonical array index stands before every other
\* column, array indexes stand in ascending numeric order, the other
\* columns in the order they are first met.
KeyOrderBefore(c1, c2) ==
    IF IsArrayIndex(c1)
    THEN IsArrayIndex(c2) => Decimal[c1] < Decimal[c2]
    ELSE ~IsArrayIndex(c2) /\ EncounterBefore(c1, c2)

\* The statement of a select request: the clauses in their fixed order, and
\* the values list made of the where values, the columns in the given order
\* ("encounter" or "keys"), then the limit, then the offset.
SelectShape(order) ==
    (qpc # "idle" /\ RawOperation = Some("select") /\ TruthyStr(RawTable)) =>
        /\ Len(sent) = 1
        /\ LET q == sent[1].query
               v == sent[1].values
               Before(c1, c2) == IF order = "encounter" THEN EncounterBefore(c1, c2)
                                 ELSE KeyOrderBefore(c1, c2)
               IsKey(piece) == piece.src = "where.key"
               keys == SelectSeq(q, IsKey)
               Given(name) == /\ TruthyStr(ParamsGet(url, name))
                              /\ TruthyNum(parseInt(Str(ParamsGet(url, name))))
               Number(name) == IF Given(name)
                               THEN <<NumV(parseInt(Str(ParamsGet(url, name))))>> ELSE <<>>
           IN /\ q[1] = Lit("SELECT ")
              /\ IsNull(ParamsGet(url, "columns")) => q[2] = Lit("*")
              /\ \A i, j \in DOMAIN q :
                    (i < j /\ ClauseRank(q[i]) > 0 /\ ClauseRank(q[j]) > 0)
                       => \/ ClauseRank(q[i]) < ClauseRank(q[j])
                          \/ ClauseRank(q[i]) = 3 /\ ClauseRank(q[j]) = 3
              /\ \E i \in DOMAIN q : q[i] = Lit(" FROM ") /\ q[i + 1] = From("table", Str(RawTable))
              /\ (\E i \in DOMAIN q : q[i] = Lit(" WHERE ")) <=> HasWhereParam
              /\ \A i \in DOMAIN q : q[i].src = "where.key" =>
                    /\ q[i - 1] \in {Lit(" WHERE "), Lit(" AND ")}
                    /\ q[i + 1] = Lit(" = ")
                    /\ q[i + 2].src = "placeholder"
              /\ Len(keys) = Cardinality(ParamCols("where"))
              /\ {keys[i].txt : i \in DOMAIN keys} = ParamCols("where")
              /\ \A i, j \in DOMAIN keys : i < j => Before(keys[i].txt, keys[j].txt)
              /\ (\E i \in DOMAIN q : q[i] = Lit(" ORDER BY ")) <=> TruthyStr(ParamsGet(url, "orderBy"))
              /\ \A i \in DOMAIN q : q[i] = Lit(" ORDER BY ") =>
                    /\ q[i + 1] = From("orderBy", Str(ParamsGet(url, "orderBy")))
                    /\ q[i + 2] = Lit(" ")
                    /\ q[i + 3].src = "orderDirection"
              /\ (\E i \in DOMAIN q : q[i] = Lit(" LIMIT ")) <=> Given("limit")
              /\ (\E i \in DOMAIN q : q[i] = Lit(" OFFSET ")) <=> Given("offset")
              /\ v = [i \in DOMAIN keys |-> StrV(LastValue("where", keys[i].txt))]
                     \o Number("limit") \o Number("offset")
              /\ url = ExampleUrl =>
                    /\ Render(q) = <<"SELECT ", "*", " FROM ", "products", " WHERE ", "status",
                                     " = ", "$1", " ORDER BY ", "created_at", " ", "DESC",
                                     " LIMIT ", "$2">>
                    /\ v = <<StrV("active"), NumV(Num(10))>>

\* C8 as claimed: the where values stand in the values list in the order
\* their parameters are met in the query string.
C8_WhereValuesInEncounterOrder == SelectShape("encounter")

\* C8 as amended: the where values stand in the values list in the key order
\* of the where object.
C8_WhereValuesInKeyOrder == SelectShape("keys")

\* A select whose where columns are not in encounter order in the statement.
C8_WitnessIndexColumn ==
    /\ qpc = "awaiting"
    /\ RawOperation = Some("select")
    /\ ParamCols("where") = {"status", "7"}
    /\ EncounterBefore("status", "7")
    /\ Len(sent[1].values) = 4

\* ======================================================================
\* The migration runner (src/unnamed/part_005) and the server start-up
\* (src/src/index.tsx). One process at a time runs against the database: a
\* server (startServer) or a script that calls initDatabase, such as
\* src/src/lib/migration-test.ts. A step of initDatabase is one statement
\* handed to the database with the code that follows it up to the next
\* await. A statement fails when the database cannot execute it (a relation
\* it needs is absent) or when the connection fails, which can happen to any
\* statement.
\* ======================================================================

\* ------------------------------------------------------------------ bounds
\* Most calls of initDatabase in a behaviour.
MaxRuns == 3
\* Most requests a serving process is followed through.
MaxRequests == 1

CURRENT_SCHEMA_VERSION == 1

\* createInitialTables, statement by statement: what each creates and the
\* relations it refers to.
InitialSchema ==
    << [kind |-> "table", name |-> "users", needs |-> {}],
       [kind |-> "table", name |-> "products", needs |-> {"users"}],
       [kind |-> "table", name |-> "orders", needs |-> {"users"}],
       [kind |-> "table", name |-> "order_items", needs |-> {"orders", "products"}],
       [kind |-> "index", name |-> "idx_users_email", needs |-> {"users"}],
       [kind |-> "index", name |-> "idx_users_active", needs |-> {"users"}],
       [kind |-> "index", name |-> "idx_products_user_id", needs |-> {"products"}],
       [kind |-> "index", name |-> "idx_products_category", needs |-> {"products"}],
       [kind |-> "index", name |-> "idx_products_in_stock", needs |-> {"products"}],
       [kind |-> "index", name |-> "idx_orders_user_id", needs |-> {"orders"}],
       [kind |-> "index", name |-> "idx_orders_status", needs |-> {"orders"}],
       [kind |-> "index", name |-> "idx_order_items_order_id", needs |-> {"order_items"}],
       [kind |-> "index", name |-> "idx_order_items_product_id", needs |-> {"order_items"}] >>

\* A forced reset that keeps the version records.
DropOrderKeepsVersions == <<"order_items", "orders", "products", "users">>

\* The DROP TABLE IF EXISTS ... CASCADE statements of a forced reset.
DropOrder == <<"order_items", "orders", "products", "users", "schema_versions">>

\* The tables tableExists is asked about before createInitialTables.
Probed == <<"users", "products">>

\* The tables of createInitialTables.
Managed == {"users", "products", "orders", "order_items"}

\* The sets of tables an untracked database is found with.
LegacyTables == SUBSET {"users", "products"} \ {{}}

\* The tables the serving process is followed inserting into.
SeededTables == {"users", "products"}

\* ---------------------------------------------------------- the database
\* The indexes on a table.
IndexesOn(t) ==
    {InitialSchema[i].name : i \in {j \in DOMAIN InitialSchema :
        InitialSchema[j].kind = "index" /\ InitialSchema[j].needs = {t}}}

\* SELECT version FROM schema_versions ORDER BY created_at DESC LIMIT 1: the
\* versions the query can give, one per row with the greatest created_at;
\* `result[0]?.version || 0` is 0 when there is no row.
LatestVersions(rows) ==
    IF rows = <<>> THEN {0}
    ELSE {rows[i].version : i \in {j \in DOMAIN rows :
            \A k \in DOMAIN rows : rows[k].created_at <= rows[j].created_at}}

\* CREATE TABLE without IF NOT EXISTS: creating a table that is there fails.
CanCreateOnce(stmt, tbls) ==
    /\ stmt.needs \subseteq tbls
    /\ stmt.kind = "table" => stmt.name \notin tbls

\* A CREATE ... IF NOT EXISTS statement can be executed: the relations it
\* refers to exist, or it creates a table that is already there.
CanCreate(stmt, tbls) ==
    \/ stmt.kind = "table" /\ stmt.name \in tbls
    \/ stmt.needs \subseteq tbls

\* ------------------------------------------------------------ initDatabase
\* A call of initDatabase: where it is (pc, and i within a run of like
\* statements), who called it, its options, its locals, the statements of
\* it that failed, whether the database connection failed under it, how
\* many CREATE and DROP statements it has sent, and of runMigrations the
\* argument toVersion and the versions whose case of the switch has run.
NoRun ==
    [pc |-> "none", i |-> 0, path |-> "", caller |-> "", forceReset |-> FALSE,
     skipIfExists |-> FALSE, currentVersion |-> 0, usersExists |-> FALSE,
     productsExists |-> FALSE, version |-> 0, failures |-> {}, faulted |-> FALSE,
     ddl |-> 0, toVersion |-> 0, applied |-> <<>>]

\* How the call before the present one ended, and the database it left,
\* which is the database the present call was entered with; whether the
\* call before threw, was a forced reset, and was entered with a sound
\* database.
NoPrev ==
    [entered |-> FALSE, returned |-> FALSE, plain |-> FALSE, rows |-> 0,
     current |-> {}, tables |-> {}, indexes |-> {}, data |-> {}, versions |-> <<>>,
     threw |-> FALSE, forceReset |-> FALSE, sound |-> FALSE]

\* A database on which initDatabase() completes when no statement fails to
\* reach the database: no version is recorded, so that the schema is
\* created, or users is there for the test query.
Sound(current, tbls) == current = {0} \/ "users" \in tbls

\* The call has ended.
Over(r) == r.pc \in {"none", "returned", "threw"}

\* The call was made with forceReset and skipIfExists both unset.
Plain(r) == ~r.forceReset /\ ~r.skipIfExists

\* The statements whose errors are caught where they are issued:
\* getCurrentSchemaVersion gives 0 and tableExists gives false.
Probes == {"getCurrentSchemaVersion", "tableExists"}

\* startServer serves every call of initDatabase that does not throw.
AfterInitServesAnyway(caller, pc, srv) ==
    IF caller # "startServer" THEN srv
    ELSE IF pc \in {"returned", "threw"} THEN "serving" ELSE srv

\* What startServer does when its `await initDatabase()` is over: serve()
\* after a return, process.exit(1) in its catch block after a throw. A
\* script that called initDatabase leaves the server as it is.
AfterInit(caller, pc, srv) ==
    IF caller # "startServer" THEN srv
    ELSE CASE pc = "returned" -> "serving"
           [] pc = "threw"    -> "exited"
           [] OTHER           -> srv

\* The run moves on to r; when that ends the call, its caller goes on.
Goto(r) ==
    /\ run' = r
    /\ server' = AfterInit(r.caller, r.pc, server)
    /\ exitCode' = IF r.caller = "startServer" /\ r.pc = "threw" THEN 1 ELSE exitCode
    /\ UNCHANGED <<other, prev, nruns, accepted>>

\* A statement of the run failed; fault: because the connection failed.
Failed(r, fault) ==
    [r EXCEPT !.failures = @ \cup {r.pc}, !.faulted = @ \/ fault]

\* The run has sent one more CREATE or DROP statement.
Ddl(r) == [r EXCEPT !.ddl = @ + 1]

\* The catch block of initDatabase: the error is thrown again.
Throw(r, fault) == [Failed(r, fault) EXCEPT !.pc = "threw"]

\* runMigrations jumps to its last version.
MigrationLoopLastOnly(r, version) ==
    IF version <= r.toVersion
    THEN [r EXCEPT !.pc = "recordSchemaVersion", !.path = "migrate",
                   !.version = r.toVersion, !.applied = Append(@, r.toVersion)]
    ELSE [r EXCEPT !.pc = "testQuery"]

\* runMigrations at the head of its loop, `version` being the loop variable:
\* the switch on that version runs (no case of it sends a statement), the
\* next statement is the recordSchemaVersion of that version, and past
\* toVersion the test query of initDatabase.
MigrationLoop(r, version) ==
    IF version <= r.toVersion
    THEN [r EXCEPT !.pc = "recordSchemaVersion", !.path = "migrate", !.version = version,
                   !.applied = Append(@, version)]
    ELSE [r EXCEPT !.pc = "testQuery"]

\* runMigrations(fromVersion, toVersion) up to its first statement.
runMigrations(r, fromVersion, toVersion) ==
    MigrationLoop([r EXCEPT !.toVersion = toVersion], fromVersion + 1)

\* skipIfExists returns whatever version is read.
BranchSkipUnversioned(r, v) ==
    LET r1 == [r EXCEPT !.currentVersion = v]
    IN IF r1.forceReset THEN [r1 EXCEPT !.pc = "drop", !.i = 1]
       ELSE IF r1.skipIfExists THEN [r1 EXCEPT !.pc = "returned"]
       ELSE IF v = 0 THEN [r1 EXCEPT !.pc = "tableExists", !.i = 1]
       ELSE IF v < CURRENT_SCHEMA_VERSION THEN runMigrations(r1, v, CURRENT_SCHEMA_VERSION)
       ELSE [r1 EXCEPT !.pc = "testQuery"]

\* initDatabase takes every database for one without a schema.
BranchAlwaysFresh(r, v) ==
    LET r1 == [r EXCEPT !.currentVersion = v]
    IN IF r1.forceReset THEN [r1 EXCEPT !.pc = "drop", !.i = 1]
       ELSE IF r1.skipIfExists /\ v >= CURRENT_SCHEMA_VERSION THEN [r1 EXCEPT !.pc = "returned"]
       ELSE [r1 EXCEPT !.pc = "tableExists", !.i = 1]

\* initDatabase resets a database in which it reads no version.
BranchResetsUnversioned(r, v) ==
    LET r1 == [r EXCEPT !.currentVersion = v]
    IN IF r1.forceReset \/ v = 0 THEN [r1 EXCEPT !.pc = "drop", !.i = 1]
       ELSE IF r1.skipIfExists /\ v >= CURRENT_SCHEMA_VERSION THEN [r1 EXCEPT !.pc = "returned"]
       ELSE IF v < CURRENT_SCHEMA_VERSION THEN runMigrations(r1, v, CURRENT_SCHEMA_VERSION)
       ELSE [r1 EXCEPT !.pc = "testQuery"]

\* initDatabase does not look at skipIfExists.
BranchSkipIgnored(r, v) ==
    LET r1 == [r EXCEPT !.currentVersion = v]
    IN IF r1.forceReset THEN [r1 EXCEPT !.pc = "drop", !.i = 1]
       ELSE IF v = 0 THEN [r1 EXCEPT !.pc = "tableExists", !.i = 1]
       ELSE IF v < CURRENT_SCHEMA_VERSION THEN runMigrations(r1, v, CURRENT_SCHEMA_VERSION)
       ELSE [r1 EXCEPT !.pc = "testQuery"]

\* initDatabase from the value of getCurrentSchemaVersion to its next await.
Branch(r, v) ==
    LET r1 == [r EXCEPT !.currentVersion = v]
    IN IF r1.forceReset THEN [r1 EXCEPT !.pc = "drop", !.i = 1]
       ELSE IF r1.skipIfExists /\ v >= CURRENT_SCHEMA_VERSION THEN [r1 EXCEPT !.pc = "returned"]
       ELSE IF v = 0 THEN [r1 EXCEPT !.pc = "tableExists", !.i = 1]
       ELSE IF v < CURRENT_SCHEMA_VERSION THEN runMigrations(r1, v, CURRENT_SCHEMA_VERSION)
       ELSE [r1 EXCEPT !.pc = "testQuery"]

\* A creation is recorded with one description whatever tableExists found.
DescriptionUnmarked(r) ==
    CASE r.path = "reset" -> "Initial schema creation (force reset)"
      [] r.path = "fresh" -> "Initial schema creation"
      [] OTHER            -> "Migration to version " \o ToString(r.version)

\* The description recorded with the version.
Description(r) ==
    CASE r.path = "reset" -> "Initial schema creation (force reset)"
      [] r.path = "fresh" -> IF r.usersExists \/ r.productsExists
                             THEN "Schema recovery - updated existing tables"
                             ELSE "Initial schema creation"
      [] OTHER            -> "Migration to version " \o ToString(r.version)

\* -------------------------------------------- startup and schema: actions
\* initDatabase is entered: its first statement is createSchemaVersionsTable.
Enter(caller, forceReset, skipIfExists) ==
    /\ Over(run)
    /\ nruns < MaxRuns
    /\ run' = [NoRun EXCEPT !.pc = "createSchemaVersionsTable", !.caller = caller,
                            !.forceReset = forceReset, !.skipIfExists = skipIfExists]
    /\ prev' = [entered |-> TRUE, returned |-> run.pc = "returned", plain |-> Plain(run),
                rows |-> Len(versions), current |-> LatestVersions(versions),
                tables |-> tables, indexes |-> indexes, data |-> populated,
                versions |-> versions, threw |-> run.pc = "threw",
                forceReset |-> run.forceReset,
                sound |-> prev.entered /\ Sound(prev.current, prev.tables)]
    /\ nruns' = nruns + 1
    /\ UNCHANGED other
    /\ UNCHANGED dbvars

\* The process is started: startServer calls initDatabase() with no options.
StartServer ==
    /\ server = "down"
    /\ Enter("startServer", FALSE, FALSE)
    /\ server' = "starting"
    /\ exitCode' = 0
    /\ accepted' = 0
    /\ UNCHANGED qvars

\* A script calls initDatabase(options); resetDatabase is the call with
\* forceReset. Processes are followed one at a time.
CallInitDatabase(forceReset, skipIfExists) ==
    /\ server = "down"
    /\ Enter("script", forceReset, skipIfExists)
    /\ UNCHANGED <<server, exitCode, accepted>>
    /\ UNCHANGED qvars

\* CREATE TABLE IF NOT EXISTS schema_versions, at the head of initDatabase
\* and again after the drops of a forced reset.
CreateSchemaVersionsTable ==
    /\ run.pc \in {"createSchemaVersionsTable", "recreateSchemaVersionsTable"}
    /\ \E fault \in BOOLEAN :
        IF fault
        THEN /\ Goto(Throw(Ddl(run), TRUE))
             /\ UNCHANGED dbvars
        ELSE /\ tables' = tables \cup {"schema_versions"}
             /\ Goto(IF run.pc = "createSchemaVersionsTable"
                     THEN [Ddl(run) EXCEPT !.pc = "getCurrentSchemaVersion"]
                     ELSE [Ddl(run) EXCEPT !.pc = "createInitialTables", !.i = 1,
                                           !.path = "reset"])
             /\ UNCHANGED <<indexes, populated, versions, nextId, clock>>
    /\ UNCHANGED qvars

\* getCurrentSchemaVersion: the version of the latest row, 0 without a row
\* and 0 when the SELECT fails; then initDatabase up to its next statement.
GetCurrentSchemaVersion ==
    /\ run.pc = "getCurrentSchemaVersion"
    /\ \E fault \in BOOLEAN :
        IF fault \/ "schema_versions" \notin tables
        THEN Goto(Branch(Failed(run, fault), 0))
        ELSE \E v \in LatestVersions(versions) : Goto(Branch(run, v))
    /\ UNCHANGED dbvars
    /\ UNCHANGED qvars

\* One DROP TABLE IF EXISTS ... CASCADE of a forced reset.
DropTable ==
    /\ run.pc = "drop"
    /\ \E fault \in BOOLEAN :
        IF fault
        THEN /\ Goto(Throw(Ddl(run), TRUE))
             /\ UNCHANGED dbvars
        ELSE LET t == DropOrder[run.i]
             IN /\ tables' = tables \ {t}
                /\ indexes' = indexes \ IndexesOn(t)
                /\ populated' = populated \ {t}
                /\ versions' = IF t = "schema_versions" THEN <<>> ELSE versions
                /\ nextId' = IF t = "schema_versions" THEN 1 ELSE nextId
                /\ UNCHANGED clock
                /\ Goto(IF run.i < Len(DropOrder)
                        THEN [Ddl(run) EXCEPT !.i = @ + 1]
                        ELSE [Ddl(run) EXCEPT !.pc = "recreateSchemaVersionsTable", !.i = 0])
    /\ UNCHANGED qvars

\* tableExists("users"), then tableExists("products"): false when the
\* SELECT fails.
TableExists ==
    /\ run.pc = "tableExists"
    /\ \E fault \in BOOLEAN :
        LET r0 == IF fault THEN Failed(run, TRUE) ELSE run
            exists == ~fault /\ Probed[run.i] \in tables
            r1 == IF run.i = 1 THEN [r0 EXCEPT !.usersExists = exists]
                               ELSE [r0 EXCEPT !.productsExists = exists]
        IN Goto(IF run.i < Len(Probed)
                THEN [r1 EXCEPT !.i = @ + 1]
                ELSE [r1 EXCEPT !.pc = "createInitialTables", !.i = 1, !.path = "fresh"])
    /\ UNCHANGED dbvars
    /\ UNCHANGED qvars

\* A failing statement of createInitialTables is passed over.
CreateInitialTablesPassesOver ==
    /\ run.pc = "createInitialTables"
    /\ LET stmt == InitialSchema[run.i]
           next == IF run.i < Len(InitialSchema)
                   THEN [Ddl(run) EXCEPT !.i = @ + 1]
                   ELSE [Ddl(run) EXCEPT !.pc = "recordSchemaVersion", !.i = 0,
                                         !.version = CURRENT_SCHEMA_VERSION]
       IN \E fault \in BOOLEAN :
            IF fault \/ ~CanCreate(stmt, tables)
            THEN /\ Goto(Failed(next, fault))
                 /\ UNCHANGED dbvars
            ELSE /\ tables' = IF stmt.kind = "table" THEN tables \cup {stmt.name} ELSE tables
                 /\ indexes' = IF stmt.kind = "index" THEN indexes \cup {stmt.name} ELSE indexes
                 /\ UNCHANGED <<populated, versions, nextId, clock>>
                 /\ Goto(next)
    /\ UNCHANGED qvars

\* One statement of createInitialTables; after the last, initDatabase goes
\* on to recordSchemaVersion(CURRENT_SCHEMA_VERSION, ...).
CreateInitialTables ==
    /\ run.pc = "createInitialTables"
    /\ LET stmt == InitialSchema[run.i]
       IN \E fault \in BOOLEAN :
            IF fault \/ ~CanCreate(stmt, tables)
            THEN /\ Goto(Throw(Ddl(run), fault))
                 /\ UNCHANGED dbvars
            ELSE /\ tables' = IF stmt.kind = "table" THEN tables \cup {stmt.name} ELSE tables
                 /\ indexes' = IF stmt.kind = "index" THEN indexes \cup {stmt.name} ELSE indexes
                 /\ UNCHANGED <<populated, versions, nextId, clock>>
                 /\ Goto(IF run.i < Len(InitialSchema)
                         THEN [Ddl(run) EXCEPT !.i = @ + 1]
                         ELSE [Ddl(run) EXCEPT !.pc = "recordSchemaVersion", !.i = 0,
                                               !.version = CURRENT_SCHEMA_VERSION])
    /\ UNCHANGED qvars

\* recordSchemaVersion: one row more in schema_versions. A forced reset
\* returns after it, a creation goes on to the test query, runMigrations
\* to the next version.
RecordSchemaVersion ==
    /\ run.pc = "recordSchemaVersion"
    /\ \E fault \in BOOLEAN :
        IF fault \/ "schema_versions" \notin tables
        THEN /\ Goto(Throw(run, fault))
             /\ UNCHANGED dbvars
        ELSE /\ versions' = Append(versions,
                    [id |-> nextId, version |-> run.version,
                     description |-> Description(run), created_at |-> clock + 1])
             /\ nextId' = nextId + 1
             /\ clock' = clock + 1
             /\ UNCHANGED <<tables, indexes, populated>>
             /\ Goto(CASE run.path = "reset" -> [run EXCEPT !.pc = "returned"]
                       [] run.path = "fresh" -> [run EXCEPT !.pc = "testQuery"]
                       [] OTHER -> MigrationLoop(run, run.version + 1))
    /\ UNCHANGED qvars

\* SELECT COUNT(*) FROM users, the last statement of initDatabase.
TestQuery ==
    /\ run.pc = "testQuery"
    /\ \E fault \in BOOLEAN :
        IF fault \/ "users" \notin tables
        THEN Goto(Throw(run, fault))
        ELSE Goto([run EXCEPT !.pc = "returned"])
    /\ UNCHANGED dbvars
    /\ UNCHANGED qvars

\* The serving process accepts a request.
AcceptRequest ==
    /\ server = "serving"
    /\ accepted < MaxRequests
    /\ accepted' = accepted + 1
    /\ UNCHANGED <<run, other, prev, nruns, server, exitCode>>
    /\ UNCHANGED dbvars
    /\ UNCHANGED qvars

\* The process is gone: it had exited, or it is stopped while serving.
ProcessEnds ==
    /\ server \in {"serving", "exited"}
    /\ server' = "down"
    /\ exitCode' = 0
    /\ accepted' = 0
    /\ UNCHANGED <<run, other, prev, nruns>>
    /\ UNCHANGED dbvars
    /\ UNCHANGED qvars

\* DROP TABLE IF EXISTS schema_versions between two calls, which leaves the
\* other tables without their version record.
DropSchemaVersions ==
    /\ Over(run)
    /\ server = "down"
    /\ "schema_versions" \in tables
    /\ tables' = tables \ {"schema_versions"}
    /\ versions' = <<>>
    /\ nextId' = 1
    /\ run' = NoRun
    /\ prev' = NoPrev
    /\ UNCHANGED <<indexes, populated, clock, other, nruns, server, exitCode, accepted>>
    /\ UNCHANGED qvars

\* The database is not empty when initDatabase first meets it: tables of
\* an earlier, untracked setup are there, with their rows, and no
\* schema_versions.
LegacyDatabase(found) ==
    /\ nruns = 0
    /\ tables = {}
    /\ tables' = found
    /\ populated' = found
    /\ UNCHANGED <<indexes, versions, nextId, clock>>
    /\ UNCHANGED <<run, other, prev, nruns, server, exitCode, accepted>>
    /\ UNCHANGED qvars

\* The serving process inserts a row into a managed table, as the route
\* does for operation=insert.
InsertRow(t) ==
    /\ server = "serving"
    /\ t \in tables
    /\ t \notin populated
    /\ populated' = populated \cup {t}
    /\ UNCHANGED <<tables, indexes, versions, nextId, clock>>
    /\ UNCHANGED <<run, other, prev, nruns, server, exitCode, accepted>>
    /\ UNCHANGED qvars

MNext ==
    \/ StartServer
    \/ \E forceReset \in BOOLEAN, skipIfExists \in BOOLEAN :
          CallInitDatabase(forceReset, skipIfExists)
    \/ CreateSchemaVersionsTable
    \/ GetCurrentSchemaVersion
    \/ DropTable
    \/ TableExists
    \/ CreateInitialTables
    \/ RecordSchemaVersion
    \/ TestQuery
    \/ AcceptRequest
    \/ ProcessEnds
    \/ DropSchemaVersions
    \/ \E found \in LegacyTables : LegacyDatabase(found)
    \/ \E t \in SeededTables : InsertRow(t)

\* ----------------------------------------------------------- specifications
\* No request in the route, an empty database, no process.
Init ==
    /\ url = <<>>
    /\ qpc = "idle"
    /\ sent = <<>>
    /\ result = NoResult
    /\ threw = FALSE
    /\ status = 0
    /\ tables = {}
    /\ indexes = {}
    /\ populated = {}
    /\ versions = <<>>
    /\ nextId = 1
    /\ clock = 0
    /\ run = NoRun
    /\ other = NoRun
    /\ prev = NoPrev
    /\ nruns = 0
    /\ server = "down"
    /\ exitCode = 0
    /\ accepted = 0

\* The query route, the database and the process left as they are.
SpecQuery == Init /\ [][QNext]_vars

\* Startup, initDatabase and the schema, no request in the route.
SpecStartup == Init /\ [][MNext]_vars

\* --------------------------------------------------- startup: the claims
\* The call of initDatabase made by startServer.
Startup == run.caller = "startServer"

\* A statement of the call failed whose error is not caught where the
\* statement is issued.
Fatal(r) == r.failures \ Probes # {}

\* C9 as stated: the server accepts requests only after initDatabase has
\* completed successfully, and once any statement of the initDatabase called
\* by startServer has failed, the call throws, the server never serves and
\* the process exits with a non-zero code.
C9_AnyFailureStopsStartup ==
    /\ (server = "serving" \/ accepted > 0) => Startup /\ run.pc = "returned"
    /\ (Startup /\ run.failures # {}) =>
          /\ server # "serving"
          /\ accepted = 0
          /\ Over(run) => run.pc = "threw"
          /\ server = "exited" => exitCode # 0

\* C9, amended: the server accepts requests only after the initDatabase of
\* startServer has returned; once a statement of it has failed other than
\* the SELECT of getCurrentSchemaVersion or of tableExists, the call has
\* thrown, the server is not serving, no request is accepted and the process
\* has exited with code 1; a call in which only those SELECTs failed is not
\* stopped by them.
C9_FatalFailureStopsStartup ==
    /\ (server = "serving" \/ accepted > 0) =>
          Startup /\ run.pc = "returned" /\ ~Fatal(run)
    /\ (Startup /\ Fatal(run)) =>
          /\ run.pc = "threw"
          /\ server \in {"exited", "down"}
          /\ accepted = 0
          /\ server = "exited" => exitCode = 1
    /\ (Startup /\ run.pc = "threw") => Fatal(run) /\ server \in {"exited", "down"}
    /\ server = "exited" => Startup /\ run.pc = "threw" /\ exitCode = 1
    /\ (Startup /\ ~Over(run)) => server = "starting" /\ ~Fatal(run)

\* A statement of createInitialTables failed under startServer, and the
\* process has exited.
C9_Witness ==
    /\ Startup
    /\ "createInitialTables" \in run.failures
    /\ server = "exited"
    /\ exitCode = 1

\* The present call and the one before it were both made with forceReset
\* and skipIfExists unset, the one before returned, and the connection has
\* not failed under the present one.
SecondPlainRun ==
    /\ run.pc # "none"
    /\ Plain(run)
    /\ ~run.faulted
    /\ prev.returned
    /\ prev.plain

\* C10: a second initDatabase with forceReset and skipIfExists unset, after
\* a first one that returned, does not throw, adds no row to schema_versions
\* and leaves the current schema version what it was after the first.
C10_SecondRunIdempotent ==
    SecondPlainRun =>
        /\ run.pc # "threw"
        /\ Len(versions) = prev.rows
        /\ LatestVersions(versions) = prev.current
        /\ run.failures = {}

\* A second plain call has returned, the first having recovered tables that
\* had lost their version record.
C10_Witness ==
    /\ SecondPlainRun
    /\ run.pc = "returned"
    /\ nruns >= 2
    /\ \E i \in DOMAIN versions :
          versions[i].description = "Schema recovery - updated existing tables"

\* ------------------------------------------------ recovery: the claims
\* The present call is initDatabase() with no option set, and the
\* connection has not failed under it.
PlainRun == prev.entered /\ run.pc # "none" /\ Plain(run) /\ ~run.faulted

\* The database the present call was entered with held users or products
\* and no schema_versions.
LegacyStart ==
    /\ "schema_versions" \notin prev.tables
    /\ prev.tables \cap {"users", "products"} # {}

\* The version record a call has appended last.
LastRecord == versions[Len(versions)]

DatabaseAsEntered ==
    /\ tables = prev.tables
    /\ indexes = prev.indexes
    /\ populated = prev.data
    /\ versions = prev.versions

\* The present call has skipIfExists set and has read a current version
\* that is at least CURRENT_SCHEMA_VERSION.
SkipCase == run.skipIfExists /\ run.currentVersion >= CURRENT_SCHEMA_VERSION

RecordsKept ==
    /\ Len(prev.versions) <= Len(versions)
    /\ SubSeq(versions, 1, Len(prev.versions)) = prev.versions

\* C13: a call of initDatabase without forceReset, whatever its path and
\* whether or not a statement of it fails, drops no table and no index,
\* leaves rows in every managed table that held rows, and keeps every
\* version record there was; a call that has removed any of these was made
\* with forceReset.
C13_NothingRemovedWithoutReset ==
    (prev.entered /\ run.pc # "none") =>
        \/ run.forceReset
        \/ /\ prev.tables \subseteq tables
           /\ prev.indexes \subseteq indexes
           /\ prev.data \subseteq populated
           /\ RecordsKept

\* A call without forceReset has returned after appending a version record
\* to a schema_versions that held one, the tables holding rows.
C13_Witness ==
    /\ prev.entered
    /\ ~run.forceReset
    /\ run.pc = "returned"
    /\ prev.data # {}
    /\ prev.versions # <<>>
    /\ Len(versions) > Len(prev.versions)

\* ------------------------------------------------- forceReset: the claims
\* The indexes of createInitialTables.
AllIndexes ==
    {InitialSchema[j].name : j \in {n \in DOMAIN InitialSchema :
        InitialSchema[n].kind = "index"}}

\* C14: a call of initDatabase with forceReset, whatever version it read
\* and whatever skipIfExists is, drops order_items, orders, products, users
\* and schema_versions in that order, then creates schema_versions and the
\* schema again; when it has returned, schema_versions holds one record, of
\* version CURRENT_SCHEMA_VERSION, and every managed table exists, with its
\* indexes and without rows.
C14_ForceResetRebuilds ==
    run.forceReset =>
        /\ run.pc \notin {"tableExists", "testQuery"}
        /\ run.pc = "drop" =>
              /\ run.i \in DOMAIN DropOrder
              /\ \A j \in 1..(run.i - 1) : DropOrder[j] \notin tables
              /\ run.ddl = run.i
        /\ run.pc = "recreateSchemaVersionsTable" =>
              /\ tables = {}
              /\ indexes = {}
              /\ populated = {}
              /\ versions = <<>>
              /\ run.ddl = 1 + Len(DropOrder)
        /\ run.pc \in {"createInitialTables", "recordSchemaVersion"} =>
              /\ run.path = "reset"
              /\ versions = <<>>
              /\ populated = {}
        /\ run.pc = "returned" =>
              /\ tables = Managed \cup {"schema_versions"}
              /\ indexes = AllIndexes
              /\ populated = {}
              /\ Len(versions) = 1
              /\ versions[1].version = CURRENT_SCHEMA_VERSION
              /\ versions[1].id = 1
              /\ run.failures \subseteq Probes

\* A call with forceReset and skipIfExists has returned from a database at
\* the current version whose tables held rows.
C14_Witness ==
    /\ run.forceReset
    /\ run.skipIfExists
    /\ run.currentVersion = CURRENT_SCHEMA_VERSION
    /\ run.pc = "returned"
    /\ prev.data # {}
    /\ prev.versions # <<>>

\* ---------------------------------------------------- atomicity: the claim
\* C20: a call of initDatabase that has thrown has left the database as it
\* was when the call was entered: tables, indexes, rows and version records.
C20_FailedRunRolledBack ==
    (prev.entered /\ run.pc = "threw") => DatabaseAsEntered

\* --------------------------------------- the parser's errors: the claims
\* A required parameter is absent or empty.
Missing(o) == o = Null \/ o = Some("")

MissingParameters == "Missing required parameters: table and operation"

\* The required keys a message of parseUrlParams names.
KeysNamed(message) ==
    IF message = MissingParameters THEN {"table", "operation"} ELSE {}

\* The first required key that is missing.
FirstMissing == IF Missing(RawTable) THEN "table" ELSE "operation"

\* C15 as stated: when table or operation is absent or empty parseUrlParams
\* fails, and the error names the first missing key, table before
\* operation, and that key only.
C15_ErrorNamesFirstMissingKey ==
    (qpc # "idle" /\ (Missing(RawTable) \/ Missing(RawOperation))) =>
        /\ ~Request.ok
        /\ KeysNamed(Request.error) = {FirstMissing}

\* C15, amended: parseUrlParams fails exactly when table or operation is
\* absent or empty, always with the one message "Missing required
\* parameters: table and operation", whichever of the two is missing; the
\* request it returns otherwise has the table and the operation of the query
\* string, both non-empty. generalQuery then answers with that message and
\* sends no statement.
C15_MissingParameterRejected ==
    /\ (Missing(RawTable) \/ Missing(RawOperation)) =>
          /\ ~Request.ok
          /\ Request.error = MissingParameters
    /\ ~(Missing(RawTable) \/ Missing(RawOperation)) =>
          /\ Request.ok
          /\ Request.table # ""
          /\ Request.operation # ""
          /\ Some(Request.table) = RawTable
          /\ Some(Request.operation) = RawOperation
    /\ (qpc # "idle" /\ ~Request.ok) =>
          /\ qpc = "done"
          /\ sent = <<>>
          /\ result = Failure(Err(MissingParameters))

\* A request with a table and an empty operation has been answered with
\* the message that names both.
C15_Witness ==
    /\ qpc = "done"
    /\ RawTable = Some("products")
    /\ RawOperation = Some("")
    /\ result.error = Some(MissingParameters)
    /\ sent = <<>>

\* The parameter is given and its value is not a number.
NotANumber(o) == o # Null /\ Str(o) # "" /\ parseInt(Str(o)).nan

\* C16: a request whose limit or offset parameter is given and is not a
\* number is rejected: generalQuery answers success = false and hands no
\* statement to the database.
C16_NonNumericLimitRejected ==
    (qpc # "idle" /\ (NotANumber(ParamsGet(url, "limit")) \/ NotANumber(ParamsGet(url, "offset")))) =>
        /\ sent = <<>>
        /\ qpc = "done"
        /\ ~result.success

\* C17: the orderDirection of every request parseUrlParams returns is ASC
\* or DESC, ASC when the parameter is absent, and the piece of an emitted
\* statement that comes from orderDirection is one of the two.
C17_DirectionIsAscOrDesc ==
    /\ Request.ok => Request.orderDirection \in {"ASC", "DESC"}
    /\ (Request.ok /\ ParamsGet(url, "orderDirection") = Null) => Request.orderDirection = "ASC"
    /\ \A s \in Range(sent) : \A i \in DOMAIN s.query :
          s.query[i].src = "orderDirection" => s.query[i].txt \in {"ASC", "DESC"}

\* ------------------------------------------ the status of a reply: the claim
\* The request fails validation: parsing or building throws.
FailsValidation == ~Request.ok \/ ~Dispatch(Request).ok

\* C19: the route answers a request that fails validation with a 4xx
\* status, one whose statement the database refuses with a 5xx status, and
\* no failed request with a success status.
C19_FailureStatus ==
    (qpc = "done" /\ ~result.success) =>
        /\ status \notin 200..299
        /\ FailsValidation => status \in 400..499
        /\ ~FailsValidation => status \in 500..599

\* ------------------------------------------------------ joins: the claim
\* The value of the last parameter of that key, or the default.
LastParam(key, default) ==
    LET hits == {i \in DOMAIN url : url[i].key = key}
    IN IF hits = {} THEN default
       ELSE url[CHOOSE i \in hits : \A j \in hits : j <= i].value

\* The join_<i>_ parameters of the query string taken together, i being
\* the n-th index of JoinIdx.
JoinGroup(n) ==
    [table |-> LastParam(<<"join", JoinIdx[n], "table">>, ""),
     type  |-> LET t == LastParam(<<"join", JoinIdx[n], "type">>, "")
               IN IF <<"join", JoinIdx[n], "type">> \in {url[i].key : i \in DOMAIN url}
                  THEN toUpperCase(t) ELSE "INNER",
     on    |-> LastParam(<<"join", JoinIdx[n], "on">>, "")]

\* The groups that have a table and an on condition, by ascending index,
\* from the n-th index on.
RECURSIVE CompleteGroups(_)
CompleteGroups(n) ==
    IF n > Len(JoinIdx) THEN <<>>
    ELSE (IF JoinGroup(n).table # "" /\ JoinGroup(n).on # "" THEN <<JoinGroup(n)>> ELSE <<>>)
         \o CompleteGroups(n + 1)

\* The pieces of a statement that come from the given field of a join, in
\* the order of the text.
RECURSIVE PiecesFrom(_, _)
PiecesFrom(query, src) ==
    IF query = <<>> THEN <<>>
    ELSE (IF Head(query).src = src THEN <<Head(query).txt>> ELSE <<>>)
         \o PiecesFrom(Tail(query), src)

\* C18: the joins of the request parseUrlParams returns are the groups of
\* join_<i>_table, join_<i>_type and join_<i>_on parameters that have a
\* non-empty table and a non-empty on condition, by ascending i, and a
\* select statement has one JOIN clause for each of them, in that order,
\* none with an empty table or an empty ON condition.
C18_CompleteJoinsInIndexOrder ==
    /\ Request.ok => Request.joins = CompleteGroups(1)
    /\ \A s \in Range(sent) :
          RawOperation = Some("select") =>
              /\ PiecesFrom(s.query, "join.table") =
                    [n \in DOMAIN CompleteGroups(1) |-> CompleteGroups(1)[n].table]
              /\ PiecesFrom(s.query, "join.on") =
                    [n \in DOMAIN CompleteGroups(1) |-> CompleteGroups(1)[n].on]
              /\ PiecesFrom(s.query, "join.type") =
                    [n \in DOMAIN CompleteGroups(1) |-> CompleteGroups(1)[n].type]
              /\ "" \notin Range(PiecesFrom(s.query, "join.table"))
              /\ "" \notin Range(PiecesFrom(s.query, "join.on"))

\* A select is sent with two joins, given in the query string by
\* descending index and emitted by ascending index.
C18_Witness ==
    /\ qpc = "awaiting"
    /\ PiecesFrom(sent[1].query, "join.table") = <<"users", "orders">>
    /\ \E i, j \in DOMAIN url :
          /\ i < j
          /\ url[i].key = <<"join", "1", "table">>
          /\ url[j].key = <<"join", "0", "table">>

\* ------------------------------------------- skipIfExists and the tables
\* C21: initDatabase({skipIfExists: true}) entered with users, products and
\* orders present creates nothing and records no version, whatever
\* schema_versions holds.
C21_SkipWhenTablesPresent ==
    (prev.entered /\ run.skipIfExists /\ ~run.forceReset
        /\ {"users", "products", "orders"} \subseteq prev.tables) =>
        /\ tables = prev.tables
        /\ indexes = prev.indexes
        /\ versions = prev.versions

\* ------------------------------------------------ re-running after a failure
\* The call before the present one was made without forceReset on a sound
\* database and was cut short by a failure; the present call is
\* initDatabase() and reaches the database with every statement.
RerunAfterAbort ==
    PlainRun /\ prev.threw /\ ~prev.forceReset /\ prev.sound

JoinKinds == {"INNER", "LEFT", "RIGHT", "FULL"}

\* C25: every join of a request parseUrlParams returns has a kind of
\* JoinKinds, and the piece of an emitted statement that comes from
\* join_<i>_type is one of them.
C25_JoinKindIsKnown ==
    /\ Request.ok =>
          \A n \in DOMAIN Request.joins : Request.joins[n].type \in JoinKinds
    /\ \A s \in Range(sent) : \A i \in DOMAIN s.query :
          s.query[i].src = "join.type" => s.query[i].txt \in JoinKinds

\* ------------------------------------------------ LIMIT and OFFSET: the claim
\* The parameter is given as a non-negative integer.
NonNegative(o) == o # Null /\ ~parseInt(Str(o)).nan /\ parseInt(Str(o)).n >= 0

\* The parameter is given as a negative integer.
Negative(o) == o # Null /\ ~parseInt(Str(o)).nan /\ parseInt(Str(o)).n < 0

\* The number bound to the placeholder of the LIMIT or OFFSET clause of the
\* statement, none when the statement has no such clause.
Bound(s, src) ==
    {s.values[s.query[i].k] : i \in {j \in DOMAIN s.query :
        s.query[j].src = "placeholder" /\ j > 1 /\ s.query[j - 1].txt = src}}

\* C26: a select statement has a LIMIT clause bound to the limit parameter
\* whenever that is given as a non-negative integer, 0 included, and
\* likewise an OFFSET clause; a negative limit or offset is bound into no
\* statement.
C26_LimitAndOffsetBound ==
    \A s \in Range(sent) :
        RawOperation = Some("select") =>
            /\ NonNegative(ParamsGet(url, "limit")) =>
                  Bound(s, " LIMIT ") = {NumV(parseInt(Str(ParamsGet(url, "limit"))))}
            /\ NonNegative(ParamsGet(url, "offset")) =>
                  Bound(s, " OFFSET ") = {NumV(parseInt(Str(ParamsGet(url, "offset"))))}
            /\ Negative(ParamsGet(url, "limit")) => Bound(s, " LIMIT ") = {}
            /\ Negative(ParamsGet(url, "offset")) => Bound(s, " OFFSET ") = {}

\* ------------------------------------------- the database a call returns with
\* The tables checkDatabaseStatus asks for: isHealthy is that all exist.
HealthTables == {"users", "products", "orders"}

\* C27: when initDatabase has returned, whatever its options and the
\* database it met, the version read from schema_versions is at least
\* CURRENT_SCHEMA_VERSION.
C27_ReturnedAtCurrentVersion ==
    run.pc = "returned" =>
        /\ "schema_versions" \in tables
        /\ \A v \in LatestVersions(versions) : v >= CURRENT_SCHEMA_VERSION

\* A call with skipIfExists has returned on the fast path from a database
\* that lacks users.
C27_Witness ==
    /\ run.pc = "returned"
    /\ run.skipIfExists
    /\ ~run.forceReset
    /\ run.path = ""
    /\ "users" \notin tables

\* C28: when initDatabase has returned, users, products and orders exist,
\* so that checkDatabaseStatus reports isHealthy = true.
C28_ReturnedHealthy ==
    run.pc = "returned" => HealthTables \subseteq tables

\* -------------------------------------------------- when a version is recorded
\* A row is added to schema_versions.
Recorded == Len(versions') > Len(versions)

\* The schema is complete: every table and index of createInitialTables.
SchemaComplete == Managed \subseteq tables /\ AllIndexes \subseteq indexes

\* C29: a version is recorded only by a call none of whose schema
\* statements failed; a call that creates the schema records it with all
\* tables and indexes present; and a call in which a statement of
\* createInitialTables failed throws at once and records nothing.
C29_RecordedAfterSchemaWork ==
    [][/\ Recorded =>
            /\ run.pc = "recordSchemaVersion"
            /\ run.failures \subseteq Probes
            /\ run.path \in {"fresh", "reset"} => SchemaComplete
            /\ versions' = Append(versions, versions'[Len(versions')])
            /\ versions'[Len(versions')].version = run.version
       /\ "createInitialTables" \in run'.failures =>
            /\ run'.pc = "threw"
            /\ ~Recorded]_vars

\* A statement of createInitialTables has failed in a call without
\* forceReset after some of the tables were created: the call has thrown
\* and the version records are those it was entered with.
C29_Witness ==
    /\ "createInitialTables" \in run.failures
    /\ ~run.forceReset
    /\ run.pc = "threw"
    /\ run.ddl > 2
    /\ versions = prev.versions
    /\ LatestVersions(versions) = {0}

\* --------------------------------------------------- runMigrations by itself
\* The highest schema version of the builds followed through runMigrations.
MaxVersion == 3
\* Most rows schema_versions holds when the version is read.
MaxRows == 2

\* The contents of schema_versions with n rows: ids in insertion order,
\* created_at never decreasing with them. Rows come from recordSchemaVersion
\* of this and of later builds, over one connection or several, and from
\* the query route, which inserts into any table any values; two rows can
\* have one created_at.
Stored(n) ==
    {[i \in 1..n |-> [id |-> i, version |-> f[i].version,
                      description |-> "Migration to version " \o ToString(f[i].version),
                      created_at |-> f[i].created_at]] :
        f \in {g \in [1..n -> [version : 1..MaxVersion, created_at : 1..n]] :
                 \A i \in 1..n : \A j \in 1..n : i < j => g[i].created_at <= g[j].created_at}}

\* The contents of schema_versions.
VersionRows == UNION {Stored(n) : n \in 0..MaxRows}

\* The row of the greatest created_at and, among those, of the greatest id.
Newest(rows) ==
    rows[CHOOSE i \in DOMAIN rows : \A j \in DOMAIN rows :
            \/ rows[j].created_at < rows[i].created_at
            \/ rows[j].created_at = rows[i].created_at /\ rows[j].id <= rows[i].id]

\* `const currentVersion = await getCurrentSchemaVersion()` of initDatabase,
\* on any contents of schema_versions.
ReadVersion ==
    /\ run.pc = "none"
    /\ \E fault \in BOOLEAN :
        LET r0 == [NoRun EXCEPT !.pc = "read", !.caller = "script"]
        IN IF fault \/ "schema_versions" \notin tables
           THEN run' = [r0 EXCEPT !.failures = {"getCurrentSchemaVersion"}, !.faulted = fault]
           ELSE \E v \in LatestVersions(versions) : run' = [r0 EXCEPT !.currentVersion = v]
    /\ prev' = [NoPrev EXCEPT !.entered = TRUE, !.rows = Len(versions),
                              !.current = LatestVersions(versions),
                              !.tables = tables, !.versions = versions]
    /\ UNCHANGED <<other, nruns, server, exitCode, accepted>>
    /\ UNCHANGED dbvars
    /\ UNCHANGED qvars

\* `else if (currentVersion < CURRENT_SCHEMA_VERSION)` of initDatabase in a
\* build whose CURRENT_SCHEMA_VERSION is toVersion:
\* runMigrations(currentVersion, toVersion).
RunMigrations(toVersion) ==
    /\ run.pc = "read"
    /\ 0 < run.currentVersion
    /\ run.currentVersion < toVersion
    /\ run' = runMigrations(run, run.currentVersion, toVersion)
    /\ UNCHANGED <<other, prev, nruns, server, exitCode, accepted>>
    /\ UNCHANGED dbvars
    /\ UNCHANGED qvars

VNext ==
    \/ ReadVersion
    \/ \E toVersion \in 2..MaxVersion : RunMigrations(toVersion)
    \/ RecordSchemaVersion
    \/ TestQuery

\* A database with the whole schema and any version records, and one
\* without schema_versions; no call of initDatabase yet.
InitVersions ==
    /\ url = <<>>
    /\ qpc = "idle"
    /\ sent = <<>>
    /\ result = NoResult
    /\ threw = FALSE
    /\ status = 0
    /\ versions \in VersionRows
    /\ tables \in IF versions = <<>> THEN {Managed, Managed \cup {"schema_versions"}}
                  ELSE {Managed \cup {"schema_versions"}}
    /\ indexes = AllIndexes
    /\ populated = {}
    /\ nextId = Len(versions) + 1
    /\ clock = IF versions = <<>> THEN 0 ELSE versions[Len(versions)].created_at
    /\ run = NoRun
    /\ other = NoRun
    /\ prev = NoPrev
    /\ nruns = 0
    /\ server = "down"
    /\ exitCode = 0
    /\ accepted = 0

\* getCurrentSchemaVersion and runMigrations on any version records.
SpecMigrations == InitVersions /\ [][VNext]_vars

\* The rows this call has added to schema_versions.
Appended == SubSeq(versions, prev.rows + 1, Len(versions))

\* C23: runMigrations(currentVersion, toVersion) with 0 < currentVersion <
\* toVersion runs the switch for currentVersion+1, ..., toVersion in this
\* order, each once; it records a version after the switch for it has run,
\* each once and in the same order; and when initDatabase has returned all
\* of them are recorded and the version read back is toVersion.
C23_MigrationsInOrder ==
    run.path = "migrate" =>
        /\ 0 < run.currentVersion /\ run.currentVersion < run.toVersion
        /\ Len(run.applied) <= run.toVersion - run.currentVersion
        /\ \A i \in DOMAIN run.applied : run.applied[i] = run.currentVersion + i
        /\ Len(Appended) <= Len(run.applied)
        /\ Len(run.applied) <= Len(Appended) + 1
        /\ \A i \in DOMAIN Appended : Appended[i].version = run.applied[i]
        /\ run.pc \in {"testQuery", "returned"} =>
              /\ Len(Appended) = run.toVersion - run.currentVersion
              /\ LatestVersions(versions) = {run.toVersion}

\* runMigrations has gone through two versions and initDatabase has returned.
C23_Witness ==
    /\ run.path = "migrate"
    /\ run.pc = "returned"
    /\ Len(Appended) = 2

\* C24: getCurrentSchemaVersion gives the version of the row with the
\* greatest created_at, of the one with the greatest id when several rows
\* have it, and 0 when schema_versions does not exist.
C24_NewestRowRead ==
    (run.pc = "read" /\ ~run.faulted) =>
        run.currentVersion = IF "schema_versions" \in tables /\ versions # <<>>
                             THEN Newest(versions).version ELSE 0

\* ------------------------------------------- two calls of initDatabase at once
\* The process whose next statement the database executes is the other one.
Switch ==
    /\ other.pc # "none"
    /\ run # other
    /\ run' = other
    /\ other' = run
    /\ UNCHANGED <<prev, nruns, server, exitCode, accepted>>
    /\ UNCHANGED dbvars
    /\ UNCHANGED qvars

CNext ==
    \/ Switch
    \/ CreateSchemaVersionsTable
    \/ GetCurrentSchemaVersion
    \/ TableExists
    \/ CreateInitialTables
    \/ RecordSchemaVersion
    \/ TestQuery

\* An empty database and two processes that have both called
\* initDatabase(); the database executes their statements one at a time.
InitConcurrent ==
    /\ url = <<>>
    /\ qpc = "idle"
    /\ sent = <<>>
    /\ result = NoResult
    /\ threw = FALSE
    /\ status = 0
    /\ tables = {}
    /\ indexes = {}
    /\ populated = {}
    /\ versions = <<>>
    /\ nextId = 1
    /\ clock = 0
    /\ run = [NoRun EXCEPT !.pc = "createSchemaVersionsTable", !.caller = "script"]
    /\ other = [NoRun EXCEPT !.pc = "createSchemaVersionsTable", !.caller = "script"]
    /\ prev = NoPrev
    /\ nruns = 2
    /\ server = "down"
    /\ exitCode = 0
    /\ accepted = 0

\* Two calls of initDatabase() interleaved statement by statement.
SpecConcurrent == InitConcurrent /\ [][CNext]_vars

\* Both calls are over and each reached the database with every statement.
BothOver ==
    /\ run.pc \in {"returned", "threw"}
    /\ other.pc \in {"returned", "threw"}
    /\ ~run.faulted
    /\ ~other.faulted

\* C30: two calls of initDatabase() started together on an empty database
\* both return, the version read afterwards is CURRENT_SCHEMA_VERSION, and
\* schema_versions holds one row.
C30_ConcurrentRunsRecordOnce ==
    BothOver =>
        /\ run.pc = "returned"
        /\ other.pc = "returned"
        /\ LatestVersions(versions) = {CURRENT_SCHEMA_VERSION}
        /\ Len(versions) = 1

====
